---- MODULE Spec2Model ----
(***************************************************************************)
(* The server registry of ts-game-decorators (src/config/serverRegistry.ts) *)
(* as a state machine: several server processes share one Redis store, each *)
(* writes a heartbeat, refreshes a local snapshot of the alive servers and  *)
(* deregisters itself on shutdown.                                          *)
(*                                                                          *)
(* Store commands.  Redis executes each command (and each MULTI/EXEC batch) *)
(* atomically, and a client's commands in the order the client issued them. *)
(* A command therefore takes effect here in the step that issues it, and    *)
(* its reply waits in pending[p]; replies resume the awaiting calls of a    *)
(* process in issue order (one connection, FIFO).                           *)
(*                                                                          *)
(* The decorators (src/decorators): the metadata that the decorators of a   *)
(* class declaration leave, the routes and socket listeners registered from *)
(* it, and how a request or an event is handled.                            *)
(***************************************************************************)
EXTENDS Integers, Sequences, FiniteSets, TLC

\* ------------------------------------------------------------------ bounds

\* most records a store starts with in SortSpec
MaxServers == 3
\* most interval timers one process may hold (each start call creates one)
MaxTimers == 2
\* most store commands one process has in flight
MaxPending == 2
\* most records of a store that hold a value that does not parse
MaxMalformed == 1

\* ------------------------------------------------------------- identities

\* two processes of one fleet, explored together, and a process explored on
\* its own against records that other servers of the fleet write
Pair == {"A", "B"}
Solo == "S"
Procs == Pair \cup {Solo}

\* a string is a sequence of one-character strings
x_1 == <<"x", "-", "1">>
x_2 == <<"x", "-", "2">>
server == <<"s", "e", "r", "v", "e", "r">>
server_1 == server \o <<"-", "1">>
server_2 == server \o <<"-", "2">>
server_10 == server \o <<"-", "1", "0">>
server7 == server \o <<"7">>
server10 == server \o <<"1", "0">>
server0 == server \o <<"0">>

\* process.env.SERVER_ID of each process
SERVER_ID(p) == IF p = "A" THEN x_1 ELSE IF p = "B" THEN x_2 ELSE server_2

\* ids of servers of the fleet that are not modelled as processes
IdPool == {server_1, server_10, server7, server10, server, server0}

\* A's peer as a server that is not modelled as a process
FaultPeers == {x_2}

Ids == IdPool \cup {SERVER_ID(p) : p \in Procs}

HEARTBEAT_TTL == 30

HEARTBEAT_INTERVAL_MS == 10000

Nil == <<"nil">>

\* ------------------------------------------------------------ natural sort

Digits == {"0", "1", "2", "3", "4", "5", "6", "7", "8", "9"}

DigitValue(c) ==
    CASE c = "0" -> 0 [] c = "1" -> 1 [] c = "2" -> 2 [] c = "3" -> 3
      [] c = "4" -> 4 [] c = "5" -> 5 [] c = "6" -> 6 [] c = "7" -> 7
      [] c = "8" -> 8 [] c = "9" -> 9

\* value of a non-empty run of decimal digits
RECURSIVE DecimalValue(_)
DecimalValue(ds) ==
    IF ds = <<>> THEN 0
    ELSE 10 * DecimalValue(SubSeq(ds, 1, Len(ds) - 1)) + DigitValue(ds[Len(ds)])

AllDigits(s) == Len(s) > 0 /\ \A i \in 1..Len(s) : s[i] \in Digits

\* s matches -?\d+ as a whole
MatchesSignedNumber(s) ==
    \/ AllDigits(s)
    \/ Len(s) > 1 /\ s[1] = "-" /\ AllDigits(Tail(s))

\* parseInt(s, 10) of a string that matches -?\d+
parseInt(s) ==
    IF s[1] = "-" THEN 0 - DecimalValue(Tail(s)) ELSE DecimalValue(s)

\* id.match(/^(.*?)(-?\d+)$/): the lazy group takes the shortest prefix whose
\* remainder is an optional minus sign and digits up to the end of the string
MatchStarts(id) == {i \in 0..Len(id) - 1 : MatchesSignedNumber(SubSeq(id, i + 1, Len(id)))}

MinOf(S) == CHOOSE m \in S : \A n \in S : m <= n

naturalKey(id) ==
    IF MatchStarts(id) = {} THEN <<id, 0>>
    ELSE LET i == MinOf(MatchStarts(id))
         IN  <<SubSeq(id, 1, i), parseInt(SubSeq(id, i + 1, Len(id)))>>

\* collation rank of a character: punctuation, then digits, then letters
CharRank(c) ==
    CASE c = "-" -> 0
      [] c \in Digits -> 1 + DigitValue(c)
      [] c = "e" -> 11
      [] c = "r" -> 12
      [] c = "s" -> 13
      [] c = "v" -> 14
      [] c = "x" -> 15

\* a.localeCompare(b): negative, zero or positive
RECURSIVE localeCompare(_, _)
localeCompare(a, b) ==
    IF a = <<>> /\ b = <<>> THEN 0
    ELSE IF a = <<>> THEN -1
    ELSE IF b = <<>> THEN 1
    ELSE IF CharRank(Head(a)) < CharRank(Head(b)) THEN -1
    ELSE IF CharRank(Head(a)) > CharRank(Head(b)) THEN 1
    ELSE localeCompare(Tail(a), Tail(b))

\* naturalKey of every id of the fleet, computed once
naturalKeys == [id \in Ids |-> naturalKey(id)]

\* the comparator handed to activeServers.sort
compareServers(a, b) ==
    LET ka == naturalKeys[a.serverId]
        kb == naturalKeys[b.serverId]
    IN  IF ka[1] # kb[1] THEN localeCompare(ka[1], kb[1]) ELSE ka[2] - kb[2]

\* Array.prototype.sort is stable: an element goes behind every element that
\* does not compare greater than it
InsertSorted(sorted, s) ==
    LET before == {i \in 1..Len(sorted) : compareServers(sorted[i], s) <= 0}
        k == IF before = {} THEN 0 ELSE CHOOSE m \in before : \A n \in before : m >= n
    IN  SubSeq(sorted, 1, k) \o <<s>> \o SubSeq(sorted, k + 1, Len(sorted))

RECURSIVE sortServers(_)
sortServers(list) ==
    IF list = <<>> THEN <<>>
    ELSE \* the sorted front is bound as a value: it is computed once
         CHOOSE r \in {InsertSorted(front, list[Len(list)]) :
                         front \in {sortServers(SubSeq(list, 1, Len(list) - 1))}} : TRUE

\* the position counted from 1
findIndexFromOne(list, id) ==
    LET hits == {i \in 1..Len(list) : list[i].serverId = id}
    IN  IF hits = {} THEN -1 ELSE MinOf(hits)

\* activeServers.findIndex(s => s.serverId === SERVER_ID)
findIndex(list, id) ==
    LET hits == {i \in 1..Len(list) : list[i].serverId = id}
    IN  IF hits = {} THEN -1 ELSE MinOf(hits) - 1

\* ------------------------------------------------------------------ state

VARIABLES
    hash,            \* Redis hash server:registry: id -> stored text, or Nil
    marker,          \* id -> TTL in seconds of the key server:registry:ttl:<id>; 0: no key
    up,              \* the store answers commands (FALSE: commands are rejected)
    isOpen,          \* p -> pubClient?.isOpen
    intervals,       \* p -> number of live setInterval timers of the process
    heartbeatTimer,  \* p -> the module variable holds a timer handle (FALSE: null)
    cache,           \* p -> _cache
    pending,         \* p -> calls awaiting a store reply, in the order of issue
    ret,             \* p -> the API call that returned last, and its result
    connecting,      \* p -> createRedisAdapter awaits the connection of its clients
    declared,        \* class -> the decorators its declaration carries, once evaluated
    metadata,        \* <<key, class>> -> the value Reflect holds for the class
    app,             \* the routes registered with Express
    listeners,       \* the listeners registered on the connected socket
    handled,         \* how the last request or socket event was handled
    due,             \* p -> the timer of p in the current interval: "idle", "due", "done"
    missed           \* p -> heartbeats in a row that p failed to write

registryVars == <<hash, marker, up, isOpen, intervals, heartbeatTimer, cache, pending, ret>>

webVars == <<declared, metadata, app, listeners, handled>>

timeVars == <<due, missed>>

vars == <<registryVars, connecting, webVars, timeVars>>

\* ServerInfo; hostname, pid and the two timestamps are written and never read
ServerInfo(id) == [serverId |-> id]

JSONstringify(info) == <<"{", info, "}">>

\* JSON.parse: the value, or ok = FALSE where it throws
JSONparse(text) ==
    IF Len(text) = 3 /\ text[1] = "{" /\ text[3] = "}"
    THEN [ok |-> TRUE, value |-> text[2]]
    ELSE [ok |-> FALSE, value |-> Nil]

\* let _cache = { servers: [], count: 0, myIndex: -1, updatedAt: 0 }
\* (updatedAt is written and never read; it is left out)
EmptyCache == [servers |-> <<>>, count |-> 0, myIndex |-> -1]

NoReturn == [op |-> "none", ok |-> TRUE]

\* a call that awaits the reply to the store command it issued last
Task(kind, pc, entries, alive) ==
    [kind |-> kind, pc |-> pc, err |-> ~up, entries |-> entries, alive |-> alive]


\* -------------------------------------------------- decorators and metadata

\* the controller classes and the socket service class of an application
Controllers == {"PublicAPI", "PrivateAPI"}
Services == {"GameSocketService"}
Classes == Controllers \cup Services

\* the methods of a class, in the order the class declares them
MethodOrder(cls) == IF cls \in Controllers THEN <<"hello", "profile">> ELSE <<"start", "move">>
Methods(cls) == {MethodOrder(cls)[i] : i \in 1..Len(MethodOrder(cls))}

\* the path of the route, or the name of the event, a method is declared for
PathOf(m) == <<"/", m>>
BasePath(cls) == <<"/api/", cls>>

ROUTER_META == "router"
ROUTES_META == "routes"
AUTHEN_META == "authen"
SOCKET_SERVICE_META == "socket_service"
SOCKET_EVENTS_META == "socket_events"
SOCKET_AUTHEN_META == "socket_authen"
MetaKeys == {ROUTER_META, ROUTES_META, AUTHEN_META,
             SOCKET_SERVICE_META, SOCKET_EVENTS_META, SOCKET_AUTHEN_META}

\* JavaScript values held as metadata: undefined, true, a string, an array
Undefined == [type |-> "undefined", items |-> <<>>]
True == [type |-> "true", items |-> <<>>]
String(text) == [type |-> "string", items |-> <<text>>]
Array(items) == [type |-> "array", items |-> items]

isArray(v) == v.type = "array"
\* the value counts as true in a condition (an empty string does not)
Truthy(v) == v.type \in {"true", "array"} \/ (v.type = "string" /\ v.items[1] # <<>>)
includes(v, x) == \E i \in 1..Len(v.items) : v.items[i] = x

defineMetadata(md, key, value, target) == [md EXCEPT ![<<key, target>>] = value]
getMetadata(md, key, target) == md[<<key, target>>]

\* @RouterController(basePath) on a class
RouterController(md, basePath, target) == defineMetadata(md, ROUTER_META, String(basePath), target)

\* @Get(path) on a method
Get(md, path, target, propertyKey) ==
    LET found == getMetadata(md, ROUTES_META, target)
        routes == IF Truthy(found) THEN found ELSE Array(<<>>)
    IN  defineMetadata(md, ROUTES_META,
            Array(Append(routes.items, [method |-> "get", path |-> path, handler |-> propertyKey])),
            target)

\* no property key: the decorator stands on a class
NoKey == ""

\* @Authen() on a method (propertyKey given) or on a class
Authen(md, target, propertyKey) ==
    IF propertyKey # NoKey
    THEN LET found == getMetadata(md, AUTHEN_META, target)
             authenMethods == IF isArray(found) THEN found ELSE Array(<<>>)
         IN  defineMetadata(md, AUTHEN_META, Array(Append(authenMethods.items, propertyKey)), target)
    ELSE defineMetadata(md, AUTHEN_META, True, target)

\* @AuthenSocket() on a method (propertyKey given) or on a class
AuthenSocket(md, target, propertyKey) ==
    IF propertyKey # NoKey
    THEN LET found == getMetadata(md, SOCKET_AUTHEN_META, target)
             authenMethods == IF Truthy(found) THEN found ELSE Array(<<>>)
         IN  defineMetadata(md, SOCKET_AUTHEN_META, Array(Append(authenMethods.items, propertyKey)), target)
    ELSE defineMetadata(md, SOCKET_AUTHEN_META, True, target)

\* @SocketService() on a class
SocketService(md, target) == defineMetadata(md, SOCKET_SERVICE_META, True, target)

\* @OnEvent(event) on a method
OnEvent(md, event, target, propertyKey) ==
    LET found == getMetadata(md, SOCKET_EVENTS_META, target)
        events == IF Truthy(found) THEN found ELSE Array(<<>>)
    IN  defineMetadata(md, SOCKET_EVENTS_META,
            Array(Append(events.items, [type |-> "event", event |-> event, handler |-> propertyKey])),
            target)

\* the decorators a class declaration carries: on the class (service,
\* classAuthen) and on its methods (routes: @Get or @OnEvent; authen: @Authen
\* or @AuthenSocket)
Declarations(cls) ==
    [evaluated : {TRUE},
     service : IF cls \in Services THEN BOOLEAN ELSE {FALSE},
     classAuthen : BOOLEAN,
     routes : SUBSET Methods(cls),
     authen : SUBSET Methods(cls)]

NotDeclared == [evaluated |-> FALSE, service |-> FALSE, classAuthen |-> FALSE,
                routes |-> {}, authen |-> {}]

\* the decorators of the methods run in the order of the methods, and on one
\* method from the lowest decorator up: the auth decorator, then the route
RECURSIVE decorateMethods(_, _, _, _)
decorateMethods(md, cls, d, ms) ==
    IF ms = <<>> THEN md
    ELSE LET m == Head(ms)
             a == IF m \notin d.authen THEN md
                  ELSE IF cls \in Controllers THEN Authen(md, cls, m)
                  ELSE AuthenSocket(md, cls, m)
             r == IF m \notin d.routes THEN a
                  ELSE IF cls \in Controllers THEN Get(a, PathOf(m), cls, m)
                  ELSE OnEvent(a, PathOf(m), cls, m)
         IN  decorateMethods(r, cls, d, Tail(ms))

\* the decorators of the class run after those of its methods
decorateClass(md, cls, d) ==
    LET a == IF ~d.classAuthen THEN md
             ELSE IF cls \in Controllers THEN Authen(md, cls, NoKey)
             ELSE AuthenSocket(md, cls, NoKey)
    IN  IF cls \in Controllers THEN RouterController(a, BasePath(cls), cls)
        ELSE IF d.service THEN SocketService(a, cls)
        ELSE a

\* a request or socket event that has not been handled
NoThrow == [type |-> "none"]
NotHandled == [kind |-> "none", class |-> "", handler |-> "", ran |-> <<>>,
               thrown |-> NoThrow, status |-> 0, body |-> [none |-> TRUE]]

WebInit ==
    /\ declared = [cls \in Classes |-> NotDeclared]
    /\ metadata = [k \in MetaKeys \X Classes |-> Undefined]
    /\ app = {}
    /\ listeners = {}
    /\ handled = NotHandled

\* no interval of the timer has begun, no heartbeat was missed
TimeInit ==
    /\ due = [p \in Procs |-> "idle"]
    /\ missed = [p \in Procs |-> 0]


Init ==
    /\ hash = [id \in Ids |-> Nil]
    /\ marker = [id \in Ids |-> 0]
    /\ up = TRUE
    /\ isOpen = [p \in Procs |-> FALSE]
    /\ intervals = [p \in Procs |-> 0]
    /\ heartbeatTimer = [p \in Procs |-> FALSE]
    /\ cache = [p \in Procs |-> EmptyCache]
    /\ pending = [p \in Procs |-> <<>>]
    /\ ret = [p \in Procs |-> NoReturn]
    /\ connecting = [p \in Procs |-> FALSE]
    /\ WebInit
    /\ TimeInit

\* ---------------------------------------------------------- store commands

\* the fields of the hash
Fields(h) == {id \in Ids : h[id] # Nil}

\* every order in which the elements of a set may be listed
Orders(S) == {s \in [1..Cardinality(S) -> S] : \A i, j \in 1..Cardinality(S) : s[i] = s[j] => i = j}

\* pipeline.hSet(REGISTRY_KEY, SERVER_ID, JSON.stringify(info))
HeartbeatRecord(h, id) == [h EXCEPT ![id] = JSONstringify(ServerInfo(id))]

\* the marker is left for a later round trip
HeartbeatMarkerLater(m, id) == m

\* pipeline.set(`server:registry:ttl:${SERVER_ID}`, '1', { EX: HEARTBEAT_TTL })
HeartbeatMarker(m, id) == [m EXCEPT ![id] = HEARTBEAT_TTL]

\* pubClient.hDel(REGISTRY_KEY, fields)
hDel(h, fields) == [id \in Ids |-> IF id \in fields THEN Nil ELSE h[id]]

\* pubClient.del(`server:registry:ttl:${id}`)
delMarker(m, id) == [m EXCEPT ![id] = 0]

\* every entry is reported alive
existsResultsAll(m, entries) == {e[1] : e \in entries}

\* pipeline.exists(`server:registry:ttl:${serverId}`) for every entry: the
\* ids whose result is 1
existsResults(m, entries) == {e[1] : e \in {f \in entries : m[f[1]] > 0}}

\* ------------------------------------------------------------ refreshCache

\* HGETALL lists the fields in an order Redis does not specify.  The order is
\* seen only where the sort breaks ties between equal keys, so a call keeps
\* its entries as a set and the order is drawn when activeServers is built.

\* Object.entries(all)
entriesOf(h) == {<<id, h[id]>> : id \in Fields(h)}

\* entries.forEach: in the listed order, an alive entry is pushed when its
\* text parses
RECURSIVE activeOf(_, _)
activeOf(listed, alive) ==
    IF listed = <<>> THEN <<>>
    ELSE LET e == Head(listed)
             rest == activeOf(Tail(listed), alive)
         IN  IF e[1] \in alive /\ JSONparse(e[2]).ok
             THEN <<JSONparse(e[2]).value>> \o rest
             ELSE rest

\* no entry is taken for dead
deadOfNone(entries, alive) == {}

\* entries.forEach: deadServers
deadOf(entries, alive) == {e[1] : e \in entries} \ alive

\* _cache = { servers, count, myIndex, updatedAt } after the sort
newCache(p, active) ==
    LET sorted == sortServers(active)
    IN  [servers |-> sorted, count |-> Len(sorted), myIndex |-> findIndex(sorted, SERVER_ID(p))]

\* the snapshots a refresh with these entries may publish
Publishable(p, entries, alive) ==
    {newCache(p, active) : active \in {activeOf(listed, alive) : listed \in Orders(entries)}}


\* how a call ended; a getter returns the field of _cache it names, as it is
\* in the state the getter returns in
Returned(op) == [op |-> op, ok |-> TRUE]
Thrown(op) == [op |-> op, ok |-> FALSE]

\* what runs after refreshCache returns, by the call that awaited it; q is the
\* queue of the process without the call
Finish(p, kind, q) ==
    /\ pending' = [pending EXCEPT ![p] = q]
    /\ IF kind = "startServerRegistry"
       THEN /\ intervals' = [intervals EXCEPT ![p] = @ + 1]
            /\ heartbeatTimer' = [heartbeatTimer EXCEPT ![p] = TRUE]
            /\ ret' = [ret EXCEPT ![p] = Returned(kind)]
       ELSE IF kind = "tick"
       THEN UNCHANGED <<intervals, heartbeatTimer, ret>>
       ELSE /\ UNCHANGED <<intervals, heartbeatTimer>>
            /\ ret' = [ret EXCEPT ![p] = Returned(kind)]

\* refreshCache up to its first await
BeginRefresh(p, kind, q) ==
    /\ UNCHANGED <<hash, marker, cache>>
    /\ IF ~isOpen[p]
       THEN Finish(p, kind, q)
       ELSE /\ pending' = [pending EXCEPT ![p] = Append(q,
                   Task(kind, "hGetAll", IF up THEN entriesOf(hash) ELSE {}, {}))]
            /\ UNCHANGED <<intervals, heartbeatTimer, ret>>

\* writeHeartbeat up to its await, then what follows it when it does not await
BeginHeartbeat(p, kind, open) ==
    IF ~open
    THEN BeginRefresh(p, kind, pending[p])
    ELSE /\ hash' = IF up THEN HeartbeatRecord(hash, SERVER_ID(p)) ELSE hash
         /\ marker' = IF up THEN HeartbeatMarker(marker, SERVER_ID(p)) ELSE marker
         /\ pending' = [pending EXCEPT ![p] = Append(@, Task(kind, "heartbeat", {}, {}))]
         /\ UNCHANGED <<cache, intervals, heartbeatTimer, ret>>

\* the process explored on its own has the full bounds; of the pair, each
\* process has one command less in flight and B one timer less
PendingBound(p) == IF p = Solo THEN MaxPending ELSE MaxPending - 1
TimerBound(p) == IF p = "B" THEN MaxTimers - 1 ELSE MaxTimers

HasRoom(p) == Len(pending[p]) < PendingBound(p)

Starting(p) == Cardinality({i \in 1..Len(pending[p]) : pending[p][i].kind = "startServerRegistry"})


\* ------------------------------------------------------------- the actions

\* startServerRegistry(), called with the client open or not
StartCall(p, open) ==
    /\ intervals[p] + Starting(p) < TimerBound(p)
    /\ open => HasRoom(p)
    /\ BeginHeartbeat(p, "startServerRegistry", open)

\* a caller (the README's onReady, or any other) calls startServerRegistry
StartServerRegistry(p) ==
    /\ StartCall(p, isOpen[p])
    /\ UNCHANGED <<up, isOpen>>
    /\ UNCHANGED <<connecting, webVars, timeVars>>

\* createRedisAdapter: the client connects, then startServerRegistry() is
\* called and not awaited
CreateRedisAdapter(p) ==
    /\ ~isOpen[p]
    /\ up
    /\ isOpen' = [isOpen EXCEPT ![p] = TRUE]
    /\ StartCall(p, TRUE)
    /\ UNCHANGED up
    /\ UNCHANGED <<connecting, webVars, timeVars>>

\* closeRedisConnections: pubClient.quit()
CloseRedisConnections(p) ==
    /\ isOpen[p]
    /\ isOpen' = [isOpen EXCEPT ![p] = FALSE]
    /\ UNCHANGED <<hash, marker, up, intervals, heartbeatTimer, cache, pending, ret>>
    /\ UNCHANGED <<connecting, webVars, timeVars>>

\* one run of the setInterval callback up to its first await
TimerFire(p) ==
    /\ intervals[p] > 0
    /\ isOpen[p] => HasRoom(p)
    /\ BeginHeartbeat(p, "tick", isOpen[p])
    /\ UNCHANGED <<up, isOpen>>
    /\ UNCHANGED <<connecting, webVars, timeVars>>

\* the reply to the heartbeat batch arrives: refreshCache is called
ReplyHeartbeat(p) ==
    /\ pending[p] # <<>>
    /\ LET t == Head(pending[p]) IN
         /\ t.pc = "heartbeat" /\ ~t.err
         /\ BeginRefresh(p, t.kind, Tail(pending[p]))
    /\ UNCHANGED <<up, isOpen>>
    /\ UNCHANGED <<connecting, webVars, timeVars>>

\* the reply to hGetAll arrives: an empty registry is published at once,
\* otherwise the markers are checked in one batch
ReplyHGetAll(p) ==
    /\ pending[p] # <<>>
    /\ LET t == Head(pending[p]) IN
         /\ t.pc = "hGetAll" /\ ~t.err
         /\ IF t.entries = {}
            THEN /\ cache' = [cache EXCEPT ![p] = EmptyCache]
                 /\ Finish(p, t.kind, Tail(pending[p]))
            ELSE /\ pending' = [pending EXCEPT ![p] = Append(Tail(@),
                     Task(t.kind, "exists", t.entries,
                          IF up THEN existsResults(marker, t.entries) ELSE {}))]
                 /\ UNCHANGED <<cache, intervals, heartbeatTimer, ret>>
    /\ UNCHANGED <<hash, marker, up, isOpen>>
    /\ UNCHANGED <<connecting, webVars, timeVars>>

\* the reply to the exists batch arrives: dead entries are deleted, and
\* without any the snapshot is published
ReplyExists(p) ==
    /\ pending[p] # <<>>
    /\ LET t == Head(pending[p])
           dead == deadOf(t.entries, t.alive)
       IN
         /\ t.pc = "exists" /\ ~t.err
         /\ IF dead # {}
            THEN /\ hash' = IF up THEN hDel(hash, dead) ELSE hash
                 /\ pending' = [pending EXCEPT ![p] = Append(Tail(@),
                     Task(t.kind, "hDel", t.entries, t.alive))]
                 /\ UNCHANGED <<cache, intervals, heartbeatTimer, ret>>
            ELSE /\ hash' = hash
                 /\ \E c \in Publishable(p, t.entries, t.alive) :
                      cache' = [cache EXCEPT ![p] = c]
                 /\ Finish(p, t.kind, Tail(pending[p]))
    /\ UNCHANGED <<marker, up, isOpen>>
    /\ UNCHANGED <<connecting, webVars, timeVars>>

\* the reply to the deletion of the dead entries arrives: publish
ReplyHDel(p) ==
    /\ pending[p] # <<>>
    /\ LET t == Head(pending[p]) IN
         /\ t.pc = "hDel" /\ ~t.err
         /\ \E c \in Publishable(p, t.entries, t.alive) :
              cache' = [cache EXCEPT ![p] = c]
         /\ Finish(p, t.kind, Tail(pending[p]))
    /\ UNCHANGED <<hash, marker, up, isOpen>>
    /\ UNCHANGED <<connecting, webVars, timeVars>>

\* the rejection stops the timer of the process
ReplyErrorCancels(p) ==
    /\ pending[p] # <<>>
    /\ LET t == Head(pending[p]) IN
         /\ t.err
         /\ pending' = [pending EXCEPT ![p] = Tail(@)]
         /\ ret' = IF t.kind = "tick" THEN ret ELSE [ret EXCEPT ![p] = Thrown(t.kind)]
    /\ intervals' = [intervals EXCEPT ![p] = 0]
    /\ heartbeatTimer' = [heartbeatTimer EXCEPT ![p] = FALSE]
    /\ UNCHANGED <<hash, marker, up, isOpen, cache>>
    /\ UNCHANGED <<connecting, webVars, timeVars>>

\* the rejection resets the snapshot
ReplyErrorClears(p) ==
    /\ pending[p] # <<>>
    /\ LET t == Head(pending[p]) IN
         /\ t.err
         /\ pending' = [pending EXCEPT ![p] = Tail(@)]
         /\ ret' = IF t.kind = "tick" THEN ret ELSE [ret EXCEPT ![p] = Thrown(t.kind)]
    /\ cache' = [cache EXCEPT ![p] = EmptyCache]
    /\ UNCHANGED <<hash, marker, up, isOpen, intervals, heartbeatTimer>>
    /\ UNCHANGED <<connecting, webVars, timeVars>>

\* a store command is rejected: the timer callback catches it, every other
\* call rejects to its caller
ReplyError(p) ==
    /\ pending[p] # <<>>
    /\ LET t == Head(pending[p]) IN
         /\ t.err
         /\ pending' = [pending EXCEPT ![p] = Tail(@)]
         /\ ret' = IF t.kind = "tick" THEN ret ELSE [ret EXCEPT ![p] = Thrown(t.kind)]
    /\ UNCHANGED <<hash, marker, up, isOpen, intervals, heartbeatTimer, cache>>
    /\ UNCHANGED <<connecting, webVars, timeVars>>

\* getActiveServers / getActiveServerCount: await refreshCache(), then return
\* _cache.servers / _cache.count
GetActive(p) ==
    /\ isOpen[p] => HasRoom(p)
    /\ BeginRefresh(p, "getActive", pending[p])
    /\ UNCHANGED <<up, isOpen>>
    /\ UNCHANGED <<connecting, webVars, timeVars>>

\* a cached getter that refreshes first, as the live getters do
GetCachedRefreshing(p) ==
    /\ isOpen[p] => HasRoom(p)
    /\ BeginRefresh(p, "getCached", pending[p])
    /\ UNCHANGED <<up, isOpen>>
    /\ UNCHANGED <<connecting, webVars, timeVars>>

\* getCachedActiveServers / getCachedServerCount / getCachedServerIndex:
\* return _cache.servers / _cache.count / _cache.myIndex
GetCached(p) ==
    /\ ret' = [ret EXCEPT ![p] = Returned("getCached")]
    /\ UNCHANGED <<hash, marker, up, isOpen, intervals, heartbeatTimer, cache, pending>>
    /\ UNCHANGED <<connecting, webVars, timeVars>>

\* stopServerRegistry up to its first await
StopServerRegistry(p) ==
    /\ isOpen[p] => HasRoom(p)
    /\ intervals' = IF heartbeatTimer[p] THEN [intervals EXCEPT ![p] = @ - 1] ELSE intervals
    /\ heartbeatTimer' = [heartbeatTimer EXCEPT ![p] = FALSE]
    /\ IF ~isOpen[p]
       THEN /\ ret' = [ret EXCEPT ![p] = Returned("stopServerRegistry")]
            /\ UNCHANGED <<hash, pending>>
       ELSE /\ hash' = IF up THEN hDel(hash, {SERVER_ID(p)}) ELSE hash
            /\ pending' = [pending EXCEPT ![p] = Append(@,
                   Task("stopServerRegistry", "stopHDel", {}, {}))]
            /\ UNCHANGED ret
    /\ UNCHANGED <<marker, up, isOpen, cache>>
    /\ UNCHANGED <<connecting, webVars, timeVars>>

\* the reply to stop's hDel arrives: the marker is deleted
ReplyStopHDel(p) ==
    /\ pending[p] # <<>>
    /\ LET t == Head(pending[p]) IN
         /\ t.pc = "stopHDel" /\ ~t.err
         /\ marker' = IF up THEN delMarker(marker, SERVER_ID(p)) ELSE marker
         /\ pending' = [pending EXCEPT ![p] = Append(Tail(@),
                Task("stopServerRegistry", "stopDel", {}, {}))]
    /\ UNCHANGED <<hash, up, isOpen, intervals, heartbeatTimer, cache, ret>>
    /\ UNCHANGED <<connecting, webVars, timeVars>>

\* the reply to stop's del arrives: stopServerRegistry returns
ReplyStopDel(p) ==
    /\ pending[p] # <<>>
    /\ LET t == Head(pending[p]) IN
         /\ t.pc = "stopDel" /\ ~t.err
         /\ pending' = [pending EXCEPT ![p] = Tail(@)]
         /\ ret' = [ret EXCEPT ![p] = Returned("stopServerRegistry")]
    /\ UNCHANGED <<hash, marker, up, isOpen, intervals, heartbeatTimer, cache>>
    /\ UNCHANGED <<connecting, webVars, timeVars>>

\* the TTL of a liveness marker runs out: Redis removes the key
Expire(id) ==
    /\ marker[id] > 0
    /\ marker' = [marker EXCEPT ![id] = 0]
    /\ UNCHANGED <<hash, up, isOpen, intervals, heartbeatTimer, cache, pending, ret>>
    /\ UNCHANGED <<connecting, webVars, timeVars>>

\* the store becomes unreachable, or reachable again
StoreDown ==
    /\ up
    /\ up' = FALSE
    /\ UNCHANGED <<hash, marker, isOpen, intervals, heartbeatTimer, cache, pending, ret>>
    /\ UNCHANGED <<connecting, webVars, timeVars>>

StoreUp ==
    /\ ~up
    /\ up' = TRUE
    /\ UNCHANGED <<hash, marker, isOpen, intervals, heartbeatTimer, cache, pending, ret>>
    /\ UNCHANGED <<connecting, webVars, timeVars>>

\* another server of the fleet writes its heartbeat (the same batch)
PeerHeartbeat(id) ==
    /\ up
    /\ hash' = HeartbeatRecord(hash, id)
    /\ marker' = HeartbeatMarker(marker, id)
    /\ hash' # hash \/ marker' # marker
    /\ UNCHANGED <<up, isOpen, intervals, heartbeatTimer, cache, pending, ret>>
    /\ UNCHANGED <<connecting, webVars, timeVars>>

\* a reply arrives and the call that awaited it goes on
Reply(p) ==
    \/ ReplyHeartbeat(p)
    \/ ReplyHGetAll(p)
    \/ ReplyExists(p)
    \/ ReplyHDel(p)
    \/ ReplyStopHDel(p)
    \/ ReplyStopDel(p)

\* the pair A, B against a store that answers every command
Next ==
    \/ \E p \in Pair :
         \/ CreateRedisAdapter(p)
         \/ StartServerRegistry(p)
         \/ StopServerRegistry(p)
         \/ TimerFire(p)
         \/ Reply(p)
    \/ \E p \in Pair : Expire(SERVER_ID(p))

Spec == Init /\ [][Next]_vars

\* process A beside the heartbeats of a peer, with a store and a client that
\* may fail, and with the getters
FaultNext ==
    \/ CreateRedisAdapter("A")
    \/ CloseRedisConnections("A")
    \/ StartServerRegistry("A")
    \/ StopServerRegistry("A")
    \/ TimerFire("A")
    \/ GetActive("A")
    \/ GetCached("A")
    \/ Reply("A")
    \/ ReplyError("A")
    \/ \E id \in FaultPeers : PeerHeartbeat(id)
    \/ \E id \in FaultPeers \cup {SERVER_ID("A")} : Expire(id)
    \/ StoreDown
    \/ StoreUp

FaultSpec == Init /\ [][FaultNext]_vars

\* a stored value that was cut short: JSON.parse throws on it
Truncated(text) == SubSeq(text, 1, Len(text) - 1)

\* a store that holds the records of up to MaxServers servers, alive or not,
\* of which up to MaxMalformed hold a value that does not parse
SortInit ==
    /\ \E S \in SUBSET (IdPool \cup {SERVER_ID(Solo)}) :
         /\ Cardinality(S) <= MaxServers
         /\ \E M \in SUBSET S :
              /\ Cardinality(M) <= MaxMalformed
              /\ hash = [id \in Ids |->
                           IF id \in M THEN Truncated(JSONstringify(ServerInfo(id)))
                           ELSE IF id \in S THEN JSONstringify(ServerInfo(id))
                           ELSE Nil]
         /\ \E L \in SUBSET S : marker = [id \in Ids |-> IF id \in L THEN HEARTBEAT_TTL ELSE 0]
    /\ up = TRUE
    /\ isOpen = [p \in Procs |-> p = Solo]
    /\ intervals = [p \in Procs |-> 0]
    /\ heartbeatTimer = [p \in Procs |-> FALSE]
    /\ cache = [p \in Procs |-> EmptyCache]
    /\ pending = [p \in Procs |-> <<>>]
    /\ ret = [p \in Procs |-> NoReturn]
    /\ connecting = [p \in Procs |-> FALSE]
    /\ WebInit
    /\ TimeInit

\* refreshes of one process over such a store
SortNext ==
    \/ GetActive(Solo)
    \/ ReplyHGetAll(Solo)
    \/ ReplyExists(Solo)
    \/ ReplyHDel(Solo)

SortSpec == SortInit /\ [][SortNext]_vars

\* the store after a crash of the fleet: records of the earlier incarnations
\* of A and B may remain, with or without their liveness markers
CrashInit ==
    /\ \E S \in SUBSET {SERVER_ID(p) : p \in Pair} :
         /\ hash = [id \in Ids |-> IF id \in S THEN JSONstringify(ServerInfo(id)) ELSE Nil]
         /\ \E L \in SUBSET S : marker = [id \in Ids |-> IF id \in L THEN HEARTBEAT_TTL ELSE 0]
    /\ up = TRUE
    /\ isOpen = [p \in Procs |-> FALSE]
    /\ intervals = [p \in Procs |-> 0]
    /\ heartbeatTimer = [p \in Procs |-> FALSE]
    /\ cache = [p \in Procs |-> EmptyCache]
    /\ pending = [p \in Procs |-> <<>>]
    /\ ret = [p \in Procs |-> NoReturn]
    /\ connecting = [p \in Procs |-> FALSE]
    /\ WebInit
    /\ TimeInit

\* the pair restarted with the same ids: each process is started once, by
\* createRedisAdapter, and is never stopped
CrashNext ==
    \/ \E p \in Pair :
         \/ CreateRedisAdapter(p)
         \/ TimerFire(p)
         \/ ReplyHeartbeat(p)
         \/ ReplyHGetAll(p)
         \/ ReplyExists(p)
         \/ ReplyHDel(p)
    \/ \E p \in Pair : Expire(SERVER_ID(p))

CrashSpec == CrashInit /\ [][CrashNext]_vars

\* one process whose store calls may outlast the timer interval and the calls
\* of its application: a tick, a live getter and stopServerRegistry run while
\* earlier calls still await their replies; a peer heartbeats and expires
OverlapNext ==
    \/ CreateRedisAdapter(Solo)
    \/ StopServerRegistry(Solo)
    \/ TimerFire(Solo)
    \/ GetActive(Solo)
    \/ Reply(Solo)
    \/ \E id \in FaultPeers : PeerHeartbeat(id)
    \/ \E id \in FaultPeers \cup {SERVER_ID(Solo)} : Expire(id)

OverlapSpec == Init /\ [][OverlapNext]_vars

\* a server of the fleet that crashed: it heartbeats no more and never called
\* stopServerRegistry
CrashedId == server_1

\* the store as the crashed server left it: its record and its marker, which
\* has yet to expire
EvictInit ==
    /\ hash = [id \in Ids |-> IF id = CrashedId THEN JSONstringify(ServerInfo(id)) ELSE Nil]
    /\ marker = [id \in Ids |-> IF id = CrashedId THEN HEARTBEAT_TTL ELSE 0]
    /\ up = TRUE
    /\ isOpen = [p \in Procs |-> FALSE]
    /\ intervals = [p \in Procs |-> 0]
    /\ heartbeatTimer = [p \in Procs |-> FALSE]
    /\ cache = [p \in Procs |-> EmptyCache]
    /\ pending = [p \in Procs |-> <<>>]
    /\ ret = [p \in Procs |-> NoReturn]
    /\ connecting = [p \in Procs |-> FALSE]
    /\ WebInit
    /\ TimeInit

\* the pair runs on beside the remains of the crashed server; the markers of
\* the pair, renewed on schedule, do not expire
EvictNext ==
    \/ \E p \in Pair :
         \/ CreateRedisAdapter(p)
         \/ TimerFire(p)
         \/ ReplyHeartbeat(p)
         \/ ReplyHGetAll(p)
         \/ ReplyExists(p)
         \/ ReplyHDel(p)
    \/ Expire(CrashedId)

\* the launched processes keep running: each is started, setInterval keeps
\* firing its callback, the reachable store answers every command, and Redis
\* removes the marker of the crashed server when its TTL has run out
EvictFairness ==
    /\ \A p \in Pair :
         /\ WF_vars(CreateRedisAdapter(p))
         /\ WF_vars(TimerFire(p))
         /\ WF_vars(ReplyHeartbeat(p))
         /\ WF_vars(ReplyHGetAll(p))
         /\ WF_vars(ReplyExists(p))
         /\ WF_vars(ReplyHDel(p))
    /\ WF_vars(Expire(CrashedId))

EvictSpec == EvictInit /\ [][EvictNext]_vars /\ EvictFairness

\* --------------------------------------------------------- the timer in time

\* Time is counted in intervals of the timer.  In every interval the timer of
\* a process that has one is due once; the processes start at different
\* moments, so within an interval their callbacks run in any order.

\* the seconds between two runs of the callback
IntervalSeconds == HEARTBEAT_INTERVAL_MS \div 1000

\* one interval passes: every timer has fired and every store call was
\* answered within it.  The TTL of every marker is HEARTBEAT_INTERVAL_MS
\* shorter, and a marker whose TTL has run out is removed: a marker set by
\* the callback 30 s ago is gone when setInterval, which never fires early,
\* runs the callback again.
TimePasses ==
    /\ \A p \in Pair : due[p] = "due" => intervals[p] = 0
    /\ \A p \in Pair : pending[p] = <<>>
    /\ marker' = [id \in Ids |->
                    IF marker[id] > IntervalSeconds THEN marker[id] - IntervalSeconds ELSE 0]
    /\ due' = [p \in Procs |-> IF intervals[p] > 0 THEN "due" ELSE "idle"]
    /\ UNCHANGED <<hash, up, isOpen, intervals, heartbeatTimer, cache, pending, ret>>
    /\ UNCHANGED <<connecting, webVars, missed>>

\* the run of the setInterval callback that is due in this interval, up to
\* its first await
ScheduledTick(p) ==
    /\ due[p] = "due"
    /\ intervals[p] > 0
    /\ isOpen[p] => HasRoom(p)
    /\ BeginHeartbeat(p, "tick", isOpen[p])
    /\ due' = [due EXCEPT ![p] = "done"]
    /\ missed' = [missed EXCEPT ![p] = 0]
    /\ UNCHANGED <<up, isOpen>>
    /\ UNCHANGED <<connecting, webVars>>

\* the heartbeats in a row a process may fail to write before its marker
\* has run out
MissedCycles == (HEARTBEAT_TTL * 1000) \div HEARTBEAT_INTERVAL_MS - 1

\* the run of the callback that is due, with the store out of reach of the
\* process: the heartbeat batch is rejected and the catch of the callback
\* ends the run; nothing is written
MissedTick(p) ==
    /\ due[p] = "due"
    /\ intervals[p] > 0
    /\ missed[p] < MissedCycles
    /\ due' = [due EXCEPT ![p] = "done"]
    /\ missed' = [missed EXCEPT ![p] = @ + 1]
    /\ UNCHANGED registryVars
    /\ UNCHANGED <<connecting, webVars>>

\* the pair started over a store that may hold records of earlier
\* incarnations; every timer fires on schedule and every heartbeat is written
TimedNext ==
    \/ \E p \in Pair :
         \/ CreateRedisAdapter(p)
         \/ ScheduledTick(p)
         \/ ReplyHeartbeat(p)
         \/ ReplyHGetAll(p)
         \/ ReplyExists(p)
         \/ ReplyHDel(p)
    \/ TimePasses

TimedSpec == CrashInit /\ [][TimedNext]_vars

\* the same, with heartbeats that fail to be written: at most MissedCycles
\* in a row for a process
LossyNext ==
    \/ \E p \in Pair :
         \/ CreateRedisAdapter(p)
         \/ ScheduledTick(p)
         \/ MissedTick(p)
         \/ ReplyHeartbeat(p)
         \/ ReplyHGetAll(p)
         \/ ReplyExists(p)
         \/ ReplyHDel(p)
    \/ TimePasses

LossySpec == Init /\ [][LossyNext]_vars

\* createRedisAdapter up to its await: the clients are created and connect()
\* is called on both; the client counts as open from the call of connect()
BeginConnect(p) ==
    /\ ~isOpen[p]
    /\ ~connecting[p]
    /\ up
    /\ isOpen' = [isOpen EXCEPT ![p] = TRUE]
    /\ connecting' = [connecting EXCEPT ![p] = TRUE]
    /\ UNCHANGED <<hash, marker, up, intervals, heartbeatTimer, cache, pending, ret>>
    /\ UNCHANGED <<webVars, timeVars>>

\* both clients are connected: createRedisAdapter goes on and calls
\* startServerRegistry() without awaiting it
Connected(p) ==
    /\ connecting[p]
    /\ connecting' = [connecting EXCEPT ![p] = FALSE]
    /\ StartCall(p, TRUE)
    /\ UNCHANGED <<up, isOpen>>
    /\ UNCHANGED <<webVars, timeVars>>

\* process A from its launch, with a shutdown handler that may run at any
\* time, beside the heartbeats of a peer
StartupNext ==
    \/ BeginConnect("A")
    \/ Connected("A")
    \/ StopServerRegistry("A")
    \/ TimerFire("A")
    \/ Reply("A")
    \/ \E id \in FaultPeers : PeerHeartbeat(id)
    \/ \E id \in FaultPeers \cup {SERVER_ID("A")} : Expire(id)

StartupSpec == Init /\ [][StartupNext]_vars

\* ---------------------------------------------- routes and socket listeners

\* a class declaration is evaluated: its decorators run
Declare(cls, d) ==
    /\ ~declared[cls].evaluated
    /\ app = {}
    /\ listeners = {}
    /\ declared' = [declared EXCEPT ![cls] = d]
    /\ metadata' = decorateClass(decorateMethods(metadata, cls, d, MethodOrder(cls)), cls, d)
    /\ UNCHANGED <<app, listeners, handled, registryVars, connecting, timeVars>>

\* no method carries the decorator
methodAuthenNone(authMeta, handler) == FALSE

\* methodAuthenArr.includes(route.handler), methodAuthenArr being the
\* metadata when it is an array and [] otherwise
methodAuthen(authMeta, handler) ==
    includes(IF isArray(authMeta) THEN authMeta ELSE Array(<<>>), handler)

\* the callbacks registerRoutes hands to the router for a route
chainOf(md, Controller, route) ==
    LET authMeta == getMetadata(md, AUTHEN_META, Controller)
        classAuthen == authMeta = True
    IN  IF classAuthen \/ methodAuthen(authMeta, route.handler)
        THEN <<"authMiddleware", "handler">>
        ELSE <<"handler">>

\* registerRoutes(app, authMiddleware, ...controllers) of the module impl
registerRoutes(md, impl, controllers) ==
    UNION {LET found == getMetadata(md, ROUTER_META, Controller)
               basePath == IF Truthy(found) THEN found.items[1] ELSE <<>>
               meta == getMetadata(md, ROUTES_META, Controller)
               routes == IF Truthy(meta) THEN meta.items ELSE <<>>
           IN  {[controller |-> Controller, basePath |-> basePath,
                 method |-> routes[i].method, path |-> routes[i].path,
                 handler |-> routes[i].handler,
                 chain |-> chainOf(md, Controller, routes[i]),
                 impl |-> impl] : i \in 1..Len(routes)}
           : Controller \in controllers}

\* the two modules that export registerRoutes
Impls == {"autoRouter", "socketDecorators"}

\* initServer registers the controllers it is given, when there are any
RegisterRoutes(impl) ==
    /\ app = {}
    /\ \E cls \in Controllers : declared[cls].evaluated
    /\ app' = registerRoutes(metadata, impl, {cls \in Controllers : declared[cls].evaluated})
    /\ UNCHANGED <<declared, metadata, listeners, handled, registryVars, connecting, timeVars>>

\* what a handler method may throw
ITEM_NOT_FOUND == [type |-> "BusinessException", code |-> 11005,
                   message |-> "Item not found in shop config", statusCode |-> 404]
INVALID_REQUEST == [type |-> "BusinessException", code |-> 11001,
                    message |-> "Invalid request", statusCode |-> 400]
OtherError == [type |-> "Error", message |-> "boom"]
Throwables == {NoThrow, ITEM_NOT_FOUND, INVALID_REQUEST, OtherError}

\* the method answered the request itself
Answered == [status |-> 200, body |-> [success |-> TRUE]]

\* the error handler initServer installs behind the routes
errorHandler(err) ==
    [status |-> 500, body |-> [error |-> "Something went wrong!", details |-> err.message]]

\* the route callback of autoRouter.ts: whatever the method throws goes to next
autoRouterHandler(thrown) ==
    IF thrown = NoThrow THEN Answered ELSE errorHandler(thrown)

\* the route callback of the registerRoutes in socketDecorators.ts: a
\* BusinessException is answered here, any other error goes to next
businessHandler(thrown) ==
    IF thrown = NoThrow THEN Answered
    ELSE IF thrown.type = "BusinessException"
    THEN [status |-> thrown.statusCode,
          body |-> IF "code" \in DOMAIN thrown
                   THEN [success |-> FALSE, message |-> thrown.message, code |-> thrown.code]
                   ELSE [success |-> FALSE, message |-> thrown.message]]
    ELSE errorHandler(thrown)

\* authAPIToken answers a request without a token itself
Unauthorized == [status |-> 401, body |-> [success |-> FALSE, message |-> "No token provided"]]

\* Express runs the callbacks of the route that matches a request
HandleRequest(authorized, thrown) ==
    /\ \E r \in app :
       LET denied == r.chain[1] = "authMiddleware" /\ ~authorized
           res == IF denied THEN Unauthorized
                  ELSE IF r.impl = "autoRouter" THEN autoRouterHandler(thrown)
                  ELSE businessHandler(thrown)
       IN  handled' = [kind |-> "http", class |-> r.controller, handler |-> r.handler,
                       ran |-> IF denied THEN <<"authMiddleware">> ELSE r.chain,
                       thrown |-> IF denied THEN NoThrow ELSE thrown,
                       status |-> res.status, body |-> res.body]
    /\ UNCHANGED <<declared, metadata, app, listeners, registryVars, connecting, timeVars>>

\* needAuth of registerSocketServices for the handler of an event
needAuth(md, ServiceClass, handler) ==
    LET classAuthen == getMetadata(md, SOCKET_AUTHEN_META, ServiceClass)
        found == getMetadata(md, SOCKET_AUTHEN_META, ServiceClass)
        methodAuthenArr == IF Truthy(found) THEN found ELSE Array(<<>>)
        isMethodAuthen == isArray(methodAuthenArr) /\ includes(methodAuthenArr, handler)
    IN  Truthy(classAuthen) \/ isMethodAuthen

\* registerSocketServices on a connection: the listeners put on the socket
\* for the events of the classes that carry @SocketService
registerSocketServices(md, serviceClasses) ==
    UNION {LET meta == getMetadata(md, SOCKET_EVENTS_META, ServiceClass)
               events == IF Truthy(meta) THEN meta.items ELSE <<>>
           IN  {[service |-> ServiceClass, event |-> events[i].event,
                 handler |-> events[i].handler,
                 needAuth |-> needAuth(md, ServiceClass, events[i].handler)]
                : i \in {j \in 1..Len(events) : events[j].type = "event"}}
           : ServiceClass \in {c \in serviceClasses : Truthy(getMetadata(md, SOCKET_SERVICE_META, c))}}

\* a client connects
Connection ==
    /\ listeners = {}
    /\ \E cls \in Services : declared[cls].evaluated
    /\ listeners' = registerSocketServices(metadata, {cls \in Services : declared[cls].evaluated})
    /\ UNCHANGED <<declared, metadata, app, handled, registryVars, connecting, timeVars>>

\* what the auth function does with its callback: next(), next(err), or
\* no call at all
AuthOutcomes == {"next", "error", "silent"}

\* the socket receives an event
HandleEvent(auth) ==
    /\ \E l \in listeners :
       handled' = [kind |-> "socket", class |-> l.service, handler |-> l.handler,
                   ran |-> IF ~l.needAuth THEN <<"handler">>
                           ELSE IF auth = "next" THEN <<"authFn", "handler">>
                           ELSE <<"authFn">>,
                   thrown |-> NoThrow, status |-> 0,
                   body |-> IF l.needAuth /\ auth = "error"
                            THEN [emitted |-> "server:error"]
                            ELSE [none |-> TRUE]]
    /\ UNCHANGED <<declared, metadata, app, listeners, registryVars, connecting, timeVars>>

\* the controllers of an application, their registration and requests
RouteNext ==
    \/ \E cls \in Controllers : \E d \in Declarations(cls) : Declare(cls, d)
    \/ \E impl \in Impls : RegisterRoutes(impl)
    \/ \E authorized \in BOOLEAN : \E thrown \in Throwables : HandleRequest(authorized, thrown)

RouteSpec == Init /\ [][RouteNext]_vars

\* the socket service of an application, a connection and its events
SocketNext ==
    \/ \E cls \in Services : \E d \in Declarations(cls) : Declare(cls, d)
    \/ Connection
    \/ \E auth \in AuthOutcomes : HandleEvent(auth)

SocketSpec == Init /\ [][SocketNext]_vars

TypeOK ==
    /\ \A p \in Procs : Len(pending[p]) <= PendingBound(p) /\ intervals[p] \in 0..TimerBound(p)
    /\ \A p \in Procs : due[p] \in {"idle", "due", "done"} /\ missed[p] \in 0..HEARTBEAT_TTL

\* ------------------------------------------------------------ the claims

\* the ids of a list of ServerInfo
IdsOf(servers) == {servers[i].serverId : i \in 1..Len(servers)}

\* the trailing run of decimal digits of an id, and the text before it
RECURSIVE DigitRun(_)
DigitRun(id) ==
    IF id = <<>> \/ id[Len(id)] \notin Digits THEN <<>>
    ELSE Append(DigitRun(SubSeq(id, 1, Len(id) - 1)), id[Len(id)])

TextBefore(id) == SubSeq(id, 1, Len(id) - Len(DigitRun(id)))

\* the last call of p that returned is a stop that returned normally, the
\* client is open and no start is under way
Stopped(p) ==
    /\ ret[p] = Returned("stopServerRegistry")
    /\ isOpen[p]
    /\ Starting(p) = 0

\* C1: natural-sort order of the snapshot - ids that share the text before a
\* trailing run of decimal digits stand in the snapshot in ascending order of
\* the number the digits spell (server-1, server-2, server-10).
C1_NaturalSortOrder ==
    \A p \in Procs : \A i, j \in 1..Len(cache[p].servers) :
        LET a == cache[p].servers[i].serverId
            b == cache[p].servers[j].serverId
        IN  (/\ i < j
             /\ DigitRun(a) # <<>> /\ DigitRun(b) # <<>>
             /\ TextBefore(a) = TextBefore(b))
            => DecimalValue(DigitRun(a)) <= DecimalValue(DigitRun(b))

\* C2: end-to-end ranks - once A (x-1) and B (x-2) have both started and each
\* holds a snapshot of both servers, A's index is 0 and B's index is 1.
C2_EndToEndRanks ==
    (/\ \A p \in Pair : ret[p] = Returned("startServerRegistry")
     /\ cache["A"].count = 2 /\ cache["B"].count = 2)
    => (cache["A"].myIndex = 0 /\ cache["B"].myIndex = 1)

\* p issues the HGETALL of a refresh in this step
BeginsRefresh(p) ==
    /\ pending'[p] # <<>>
    /\ pending'[p] # pending[p]
    /\ pending'[p][Len(pending'[p])].pc = "hGetAll"

\* C3: a graceful departure is seen at the next refresh - a refresh that
\* another process begins once q has completed stopServerRegistry does not
\* read q's record, so the snapshot it publishes does not contain q.
C3_DepartureSeen ==
    [][\A p, q \in Pair :
         (p # q /\ Stopped(q) /\ BeginsRefresh(p))
         => \A e \in pending'[p][Len(pending'[p])].entries : e[1] # SERVER_ID(q)]_vars


\* the call whose reply p receives next
Awaited(p) == Head(pending[p])

\* p receives a reply in this step: the awaited call leaves the head of the
\* queue (a new call only appends to it)
Resumes(p) ==
    /\ pending[p] # <<>>
    /\ ~Awaited(p).err
    /\ pending'[p] # pending[p]
    /\ Len(pending'[p]) <= Len(pending[p])

\* C4: TTL eviction - in a refresh, the alive results are the entries whose
\* marker exists when it is checked; every other entry is deleted from the
\* hash by that refresh and is not in the snapshot it publishes, whose
\* servers are exactly the entries found alive, counted by count.
C4_TTLEviction ==
    [][\A p \in Pair :
         Resumes(p) =>
           LET t == Awaited(p)
               ids == {e[1] : e \in t.entries}
           IN  /\ (t.pc = "hGetAll" /\ t.entries # {})
                  => pending'[p][Len(pending'[p])].alive = {id \in ids : marker[id] > 0}
               /\ (t.pc = "exists" /\ ids \ t.alive # {})
                  => /\ \A id \in ids \ t.alive : hash'[id] = Nil
                     /\ pending'[p][Len(pending'[p])].pc = "hDel"
                     /\ pending'[p][Len(pending'[p])].alive = t.alive
               /\ (t.pc = "hDel" \/ (t.pc = "exists" /\ ids \ t.alive = {}))
                  => /\ IdsOf(cache'[p].servers) = t.alive
                     /\ cache'[p].count = Cardinality(t.alive)]_vars

\* a refresh has found an entry dead, has deleted it and awaits the reply
C4_Witness ==
    \E p \in Pair :
        /\ pending[p] # <<>>
        /\ Awaited(p).pc = "hDel"
        /\ \E e \in Awaited(p).entries : e[1] \notin Awaited(p).alive /\ hash[e[1]] = Nil
        /\ Awaited(p).alive # {}

\* C5: snapshot consistency - in every state, count is the length of servers
\* and myIndex is -1 or a position below count that holds SERVER_ID; it is -1
\* exactly when SERVER_ID is not in servers.
C5_SnapshotConsistent ==
    \A p \in Procs :
        LET c == cache[p] IN
        /\ c.count = Len(c.servers)
        /\ c.myIndex \in -1..(c.count - 1)
        /\ c.myIndex >= 0 => c.servers[c.myIndex + 1].serverId = SERVER_ID(p)
        /\ c.myIndex = -1 <=> SERVER_ID(p) \notin IdsOf(c.servers)

\* a process holds a snapshot of two servers with itself second while its
\* next refresh is under way
C5_Witness ==
    \E p \in Pair :
        /\ cache[p].count = 2 /\ cache[p].myIndex = 1
        /\ pending[p] # <<>> /\ Awaited(p).pc = "exists"

\* C6: a cached getter returns normally from any state, issues no store
\* command (nothing joins the calls in flight), and changes neither the
\* snapshot nor the store nor the timers.
C6_CachedGettersArePure ==
    [][\A p \in Procs :
         (ret'[p].op = "getCached" /\ ret'[p] # ret[p])
         => /\ ret'[p].ok
            /\ UNCHANGED <<hash, marker, cache, pending, intervals, heartbeatTimer>>]_vars

\* a cached getter has returned while the store is unreachable, a call of
\* the process is in flight and its timer runs
C6_Witness ==
    /\ ret["A"] = Returned("getCached")
    /\ ~up
    /\ pending["A"] # <<>>
    /\ heartbeatTimer["A"]

\* C7: double start is a no-op - whatever start calls are made, a process
\* has at most one interval timer.
C7_NoSecondTimer == \A p \in Procs : intervals[p] <= 1

\* C8: idempotent stop - a stop called when the last call returned was a
\* stop and nothing is in flight issues no deletion and leaves the timers
\* and the store unchanged.
C8_IdempotentStop ==
    [][\A p \in Pair :
         (/\ ret[p] = Returned("stopServerRegistry")
          /\ pending[p] = <<>>
          /\ StopServerRegistry(p))
         => UNCHANGED <<hash, marker, pending, intervals, heartbeatTimer>>]_vars

\* C9: stop is final - while the last call of a process that returned is a
\* stop (made with the client open) and no start is under way, the record
\* and the liveness marker of the process are absent.
C9_StopIsFinal ==
    \A p \in Pair :
        Stopped(p) => hash[SERVER_ID(p)] = Nil /\ marker[SERVER_ID(p)] = 0

\* C10: heartbeat atomicity - a step that writes the record of a server that
\* had none sets its marker with the full TTL, and a step that sets or
\* renews a marker leaves the record written: no state holds one of the two
\* writes of a heartbeat without the other.
C10_HeartbeatAtomic ==
    [][\A id \in Ids :
         /\ (hash[id] = Nil /\ hash'[id] # Nil) => marker'[id] = HEARTBEAT_TTL
         /\ marker'[id] > marker[id] => hash'[id] = JSONstringify(ServerInfo(id))]_vars

\* the refresh of one process has found alive the record that the heartbeat
\* of the other wrote
C10_Witness ==
    \E p, q \in Pair :
        /\ p # q
        /\ pending[q] # <<>> /\ Awaited(q).pc = "exists"
        /\ SERVER_ID(p) \in Awaited(q).alive
        /\ hash[SERVER_ID(p)] # Nil /\ marker[SERVER_ID(p)] = HEARTBEAT_TTL

\* C11: live getters never return stale data - a live getter returns
\* normally only in a step in which its own forced refresh receives a reply
\* of the store; with the client not open, or a store call rejected, it fails
\* to its caller.
C11_NoStaleLiveRead ==
    [][\A p \in Procs :
         (ret'[p] = Returned("getActive") /\ ret'[p] # ret[p])
         => Resumes(p) /\ Awaited(p).kind = "getActive"]_vars

\* C12: index stability - a refresh that publishes the same set of server
\* ids as the snapshot it replaces publishes them in the same positions,
\* whatever order the store listed the entries in.
C12_IndexStability ==
    [][\A p \in Procs :
         IdsOf(cache'[p].servers) = IdsOf(cache[p].servers)
         => cache'[p].servers = cache[p].servers]_vars

\* startServerRegistry returns to its caller in this step, after replies of
\* the store
StartReturns(p) ==
    /\ Resumes(p)
    /\ Awaited(p).kind = "startServerRegistry"
    /\ ret'[p] = Returned("startServerRegistry")
    /\ Len(pending'[p]) < Len(pending[p])

\* C13: start publishes the process itself - when startServerRegistry
\* returns after successful store calls, and the liveness marker it wrote has
\* not run out, the snapshot holds the process: count >= 1 and myIndex >= 0.
C13_StartPublishesSelf ==
    [][\A p \in Pair :
         (StartReturns(p) /\ marker[SERVER_ID(p)] > 0)
         => cache'[p].count >= 1 /\ cache'[p].myIndex >= 0]_vars

\* startServerRegistry has not been called in this process (under
\* StartupSpec, where createRedisAdapter alone calls it)
NeverStarted(p) == ~isOpen[p] \/ connecting[p]

\* C14: stop without start is a no-op - stopServerRegistry called in a
\* process whose registry was never started returns normally and issues no
\* store command: the record, the marker and the calls in flight are as before.
C14_StopWithoutStart ==
    [][\A p \in Pair :
         (NeverStarted(p) /\ StopServerRegistry(p))
         => /\ ret'[p] = Returned("stopServerRegistry")
            /\ UNCHANGED <<hash, marker, pending>>]_vars

\* C18: a record whose value does not parse is dead to refresh - when the
\* results of the marker check arrive, every entry of the refresh whose value
\* does not parse is deleted from the hash with the dead entries, whether its
\* marker exists or not.
C18_MalformedIsDead ==
    [][\A p \in Procs :
         (Resumes(p) /\ Awaited(p).pc = "exists")
         => \A e \in Awaited(p).entries : ~JSONparse(e[2]).ok => hash'[e[1]] = Nil]_vars

\* C19: a failed deletion of the dead entries does not abort the refresh -
\* in the step in which the deletion is rejected, the snapshot is replaced
\* with the alive entries of this pass.
C19_DeletionFailureNonFatal ==
    [][\A p \in Procs :
         (/\ pending[p] # <<>>
          /\ Awaited(p).err /\ Awaited(p).pc = "hDel"
          /\ pending'[p] = Tail(pending[p]))
         => cache'[p] \in Publishable(p, Awaited(p).entries, Awaited(p).alive)]_vars

\* C20: a store failure in the first heartbeat of startServerRegistry is not
\* fatal - when the heartbeat of a start call is rejected in a process that
\* has no timer, the periodic timer is started all the same.
C20_StartSurvivesFailure ==
    [][\A p \in Procs :
         (/\ pending[p] # <<>>
          /\ Awaited(p).err /\ Awaited(p).pc = "heartbeat"
          /\ Awaited(p).kind = "startServerRegistry"
          /\ pending'[p] = Tail(pending[p])
          /\ intervals[p] = 0)
         => intervals'[p] = 1 /\ heartbeatTimer'[p]]_vars

\* the handled request reached the method of its route, which threw e
Threw(type) == handled.kind = "http" /\ handled.thrown.type = type

\* C15: business exception formatting - when the method of a route throws a
\* BusinessException the response carries its statusCode and the body
\* {success: false, message, code}; any other error is answered by the
\* Express error handler with 500 and is not formatted as a business response.
C15_BusinessExceptionFormat ==
    /\ Threw("BusinessException")
       => /\ handled.status = handled.thrown.statusCode
          /\ handled.body = [success |-> FALSE, message |-> handled.thrown.message,
                             code |-> handled.thrown.code]
    /\ Threw("Error")
       => /\ handled.status = 500
          /\ handled.body = errorHandler(handled.thrown).body

\* the class of a route or listener, or the method itself, carries the
\* auth decorator in the declaration
Decorated(cls, m) == declared[cls].classAuthen \/ m \in declared[cls].authen

\* C16: HTTP auth gating - the auth middleware stands before the handler of
\* a registered route if and only if its controller class or its method
\* carries @Authen; a request runs the callbacks in that order, and the
\* method of a gated route runs only for an authorized request.
C16_HttpAuthGating ==
    /\ \A r \in app :
         r.chain = IF Decorated(r.controller, r.handler)
                   THEN <<"authMiddleware", "handler">>
                   ELSE <<"handler">>
    /\ handled.kind = "http"
       => handled.ran[1] = IF Decorated(handled.class, handled.handler)
                           THEN "authMiddleware"
                           ELSE "handler"

\* a controller without class-level @Authen has one route behind the auth
\* middleware and one that is not, the other controller is gated as a
\* class, and a request to the open route was answered by its method
C16_Witness ==
    /\ \E r1, r2 \in app :
         /\ r1.controller = r2.controller
         /\ ~declared[r1.controller].classAuthen
         /\ Len(r1.chain) = 2 /\ Len(r2.chain) = 1
         /\ handled.kind = "http" /\ handled.class = r2.controller
         /\ handled.handler = r2.handler /\ handled.status = 200
    /\ \E r \in app : declared[r.controller].classAuthen /\ Len(r.chain) = 2

\* C17: socket auth gating is per method - in a service class without
\* class-level @AuthenSocket an event runs the auth function first if and
\* only if its method carries @AuthenSocket, and otherwise goes to the
\* handler directly.
C17_SocketGatingPerMethod ==
    (handled.kind = "socket" /\ ~declared[handled.class].classAuthen)
    => handled.ran[1] = IF handled.handler \in declared[handled.class].authen
                        THEN "authFn"
                        ELSE "handler"

\* the store rejects the command p awaits, and the awaited call ends
Rejected(p) ==
    /\ pending[p] # <<>>
    /\ Awaited(p).err
    /\ pending'[p] = Tail(pending[p])

\* C21: a store failure inside a timer tick is caught inside the tick - in
\* the step in which a store call of a tick is rejected (the heartbeat write
\* or any call of its refresh), no call of the process returns or throws, the
\* timers of the process stay as they are; and every tick of a process whose
\* client is open starts with the heartbeat write, whatever happened to the
\* ticks before it.
C21_TickFailureCaught ==
    [][\A p \in Procs :
         /\ (Rejected(p) /\ Awaited(p).kind = "tick")
            => /\ ret'[p] = ret[p]
               /\ intervals'[p] = intervals[p]
               /\ heartbeatTimer'[p] = heartbeatTimer[p]
         /\ (TimerFire(p) /\ isOpen[p])
            => /\ pending'[p] = Append(pending[p], Task("tick", "heartbeat", {}, {}))
               /\ up => /\ hash'[SERVER_ID(p)] # Nil
                        /\ marker'[SERVER_ID(p)] = HEARTBEAT_TTL]_vars

\* C21 witness: a tick whose heartbeat was written has its refresh rejected
\* while the timer of the process is running
C21_Witness ==
    /\ pending["A"] # <<>>
    /\ Awaited("A").kind = "tick" /\ Awaited("A").err
    /\ Awaited("A").pc \in {"hGetAll", "exists", "hDel"}
    /\ intervals["A"] = 1

\* the store commands refreshCache awaits
RefreshCalls == {"hGetAll", "exists", "hDel"}

\* C22: a refresh that does not complete leaves the snapshot untouched - the
\* snapshot of a process is empty at first, and it changes only in a step in
\* which a store call of refreshCache is answered without error; a refresh
\* that finds the client closed, and a rejected store call, leave it as it was.
C22_FailedRefreshKeepsSnapshot ==
    /\ \A p \in Procs : cache[p] = EmptyCache
    /\ [][\A p \in Procs :
            cache'[p] # cache[p] => Resumes(p) /\ Awaited(p).pc \in RefreshCalls]_vars

\* C22 witness: a store call of a refresh is rejected in a process whose
\* snapshot holds servers
C22_Witness ==
    /\ pending["A"] # <<>>
    /\ Awaited("A").err /\ Awaited("A").pc \in RefreshCalls
    /\ cache["A"].count > 0

\* C27: garbage collection never removes a live server - when a refresh
\* applies the deletion of its dead entries, every record it removes from
\* server:registry belongs to a server whose liveness marker does not exist
\* at that moment.
C27_GCKeepsLiveServers ==
    [][\A p \in Pair :
         (Resumes(p) /\ Awaited(p).pc = "exists")
         => \A id \in Ids :
              (hash[id] # Nil /\ hash'[id] = Nil) => marker[id] = 0]_vars

\* a tick of p completes: its refresh publishes a snapshot
TickPublishes(p) ==
    /\ Resumes(p)
    /\ Awaited(p).kind = "tick"
    /\ Awaited(p).pc \in RefreshCalls
    /\ Len(pending'[p]) < Len(pending[p])

\* C30: self-healing after eviction - a tick of a running process whose
\* store calls all succeed re-creates record and marker, and the refresh of
\* that tick publishes a snapshot with myIndex >= 0 as long as the marker
\* written by the tick has not expired: myIndex = -1 does not outlast one
\* successful tick.
C30_SelfHealing ==
    [][\A p \in Pair :
         (TickPublishes(p) /\ marker[SERVER_ID(p)] > 0)
         => cache'[p].myIndex >= 0]_vars

\* the calls of p in flight that run the timer callback
TicksInFlight(p) == {i \in 1..Len(pending[p]) : pending[p][i].kind = "tick"}

\* C23: no overlapping cycles in one process - a timer tick never begins its
\* heartbeat+refresh while the heartbeat+refresh of an earlier tick of the
\* same process still has a store call pending.
C23_NoOverlappingTicks ==
    [][\A p \in Procs : (TimerFire(p) /\ isOpen[p]) => TicksInFlight(p) = {}]_vars

\* how far a call in flight is in refreshCache: the number of store commands
\* of the refresh it has issued
Stage(t) == IF t.pc = "hGetAll" THEN 1 ELSE IF t.pc = "exists" THEN 2
            ELSE IF t.pc = "hDel" THEN 3 ELSE 0

\* the refreshes of p in flight that read the store before the refresh whose
\* reply p receives next.  Replies arrive in the order of issue and every
\* command of a refresh is issued on the reply to its previous one, so of
\* two refreshes the one that read first issues each of its commands first:
\* a refresh that is further on than the awaited one is the older one.
OlderInFlight(p) ==
    {i \in 2..Len(pending[p]) :
       /\ pending[p][i].kind \in {"tick", "getActive"}
       /\ Stage(pending[p][i]) > Stage(Awaited(p))}

\* the refresh p awaits publishes its snapshot in this step
Publishes(p) ==
    /\ Resumes(p)
    /\ Awaited(p).pc \in RefreshCalls
    /\ Len(pending'[p]) < Len(pending[p])

\* C28: the snapshot never regresses - the refresh of a tick or of a live
\* getter never publishes while a refresh of a tick or of a live getter of
\* the same process that read the store before it is still in flight (the
\* older one publishes later and replaces the newer snapshot) unless the
\* older one can only publish the same snapshot, and it publishes, and a
\* live getter returns with, the snapshot of its own read.
C28_SnapshotNeverRegresses ==
    [][\A p \in Procs :
         (Publishes(p) /\ Awaited(p).kind \in {"tick", "getActive"})
         => /\ \A i \in OlderInFlight(p) :
                 Publishable(p, pending[p][i].entries, pending[p][i].alive) = {cache'[p]}
            /\ cache'[p] \in Publishable(p, Awaited(p).entries, Awaited(p).alive)]_vars

\* C29: stop during start leaves nothing running - when stopServerRegistry
\* returns in a process in which no start is in flight, and the only start
\* of the process was still in flight when stop was called, no interval
\* timer is active and the record and the marker of the process are deleted.
\* (Under OverlapSpec startServerRegistry is called once, and stop cancels
\* the timer it finds: a timer that is active when stop returns was set by
\* the start that stop overlapped.)
C29_StopDuringStart ==
    [][(/\ Resumes(Solo)
        /\ Awaited(Solo).pc = "stopDel"
        /\ Starting(Solo) = 0)
       => /\ intervals'[Solo] = 0
          /\ ~heartbeatTimer'[Solo]
          /\ TicksInFlight(Solo) = {}
             => hash'[SERVER_ID(Solo)] = Nil /\ marker'[SERVER_ID(Solo)] = 0]_vars

\* the crashed server is gone: from the hash and from every snapshot
Evicted(id) == hash[id] = Nil /\ \A p \in Pair : id \notin IdsOf(cache[p].servers)

\* C25 as stated: once the marker of the crashed server has expired, the
\* next refresh of a running peer that completes leaves its record deleted -
\* whenever a refresh that read the record publishes while the marker does
\* not exist, the record is gone from server:registry.
C25_NextCompletedRefreshEvicts ==
    [][\A p \in Pair :
         (/\ Publishes(p)
          /\ marker[CrashedId] = 0
          /\ CrashedId \in {e[1] : e \in Awaited(p).entries})
         => hash'[CrashedId] = Nil]_vars

\* C25, amended: crash eviction eventually happens - a refresh of a running
\* peer whose marker check finds the marker of the crashed server absent
\* deletes its record; once the marker has expired while the record is
\* still in server:registry the record is deleted, and eventually the
\* crashed server is absent from the hash and from the snapshot of every
\* running process, and stays absent.
C25_CrashEviction ==
    /\ [][\A p \in Pair :
            (/\ Resumes(p) /\ Awaited(p).pc = "exists"
             /\ CrashedId \in deadOf(Awaited(p).entries, Awaited(p).alive))
            => hash'[CrashedId] = Nil]_vars
    /\ (marker[CrashedId] = 0 /\ hash[CrashedId] # Nil) ~> (hash[CrashedId] = Nil)
    /\ <>[]Evicted(CrashedId)

\* C25 witness: both processes run with the crashed server evicted, after
\* one of them has had it in its snapshot
C25_Witness ==
    /\ hash[CrashedId] = Nil
    /\ \A p \in Pair : intervals[p] > 0
    /\ CrashedId \in IdsOf(cache["A"].servers)
    /\ CrashedId \notin IdsOf(cache["B"].servers)
    /\ cache["B"].count > 0

\* the processes whose timer is set
Running == {p \in Pair : intervals[p] > 0}

\* C24: missed-heartbeat tolerance - a running process that fails to write at
\* most 2 heartbeats in a row and writes the next one on schedule is never
\* evicted: when a peer checks the markers of the entries it read, the marker
\* of a running process is found, so the peer keeps it in its snapshot and
\* does not delete its record.  (Under LossySpec no process misses more than
\* MissedCycles = 2 heartbeats in a row.)
C24_MissedHeartbeatTolerance ==
    [][\A p \in Pair :
         (Resumes(p) /\ Awaited(p).pc = "hGetAll" /\ Awaited(p).entries # {})
         => \A q \in Running \ {p} :
              SERVER_ID(q) \in {e[1] : e \in Awaited(p).entries}
              => SERVER_ID(q) \in pending'[p][Len(pending'[p])].alive]_vars

\* the interval is over for every process: each timer has fired and every
\* store call was answered
Settled == \A p \in Pair : pending[p] = <<>> /\ due[p] # "due"

\* the processes whose timer fired in this interval are the running ones:
\* none was started and none went away since the interval began
SameProcesses == \A p \in Pair : intervals[p] > 0 <=> due[p] = "done"

\* the snapshots of the running processes agree on the running processes
Converged ==
    \A p \in Running :
       /\ IdsOf(cache[p].servers) = {SERVER_ID(q) : q \in Running}
       /\ cache[p].count = Cardinality(Running)
       /\ \A q \in Running : cache[q].servers = cache[p].servers
       /\ cache[p].myIndex \in 0..cache[p].count - 1
       /\ cache[p].servers[cache[p].myIndex + 1].serverId = SERVER_ID(p)

\* C26: convergence - at the end of an interval during which the set of
\* running processes did not change and every process wrote its heartbeat on
\* schedule, with no marker left of a process that is not running, every
\* running process's snapshot holds the same servers sequence, whose ids are
\* exactly the running processes, and myIndex is its own position in it.
C26_Convergence ==
    (/\ Settled
     /\ SameProcesses
     /\ \A p \in Pair \ Running : marker[SERVER_ID(p)] = 0)
    => Converged

====
